---- MODULE Spec2Model ----
(***************************************************************************)
(* Escrow engine of the ESCROW-bot repository: the transaction lifecycle   *)
(* (payment sweep, release, refund), the dispute engine (create, auto      *)
(* resolve, admin resolve) and the admin routes that write the same rows.  *)
(*                                                                         *)
(* Units.  Time is counted in hours.  Amounts are whole currency units;    *)
(* commission_amount is kept in hundredths of a unit, so that              *)
(* amount * commission_rate (0.02) is the integer amount * 2.              *)
(* reputation_score is kept in hundredths (5.0 is 500, 0.1 is 10).         *)
(*                                                                         *)
(* Concurrency.  Request-driven handlers run on worker threads.  A handler *)
(* that reads a row, waits (a gateway call, or the gap before its commit), *)
(* and then writes is two steps: the read with its checks, and the write.  *)
(* No handler locks the row or checks a version, so the write step is      *)
(* enabled whatever other handlers committed in between.                   *)
(*                                                                         *)
(* Storage.  The ORM session is taken by its contract: the writes made     *)
(* inside a `with db.session.begin()` block are committed together when    *)
(* the block is left, and dropped when it is left by an exception.  Column *)
(* values are exact numbers.  The payment gateway (check_payment,          *)
(* send_payment) answers nondeterministically.                             *)
(*                                                                         *)
(* Runtime.  Two statements of the sweep depend on how the interpreter and *)
(* the ORM execute them.  amount * commission_rate multiplies a Numeric    *)
(* column by a Float column, and release_escrow opens a block of its own   *)
(* while the block of the sweep that calls it is still open.  Spec,        *)
(* ConcSpec, FaultSpec, SweepSpec and BatchSpec take them as the code      *)
(* means them: the exact product, and the inner block joined to the open   *)
(* one, a raise inside it dropping the inner block's writes.  LiveSpec     *)
(* takes them as Python and the ORM session run them: Decimal * float      *)
(* raises TypeError, and begin() on a session whose transaction is already *)
(* begun raises; both are caught and logged inside the sweep.              *)
(***************************************************************************)
EXTENDS Integers, Sequences, FiniteSets, TLC

\* ---------------------------------------------------------------- bounds
MaxTx == 1
NumWorkers == 2
Horizon == 1
MaxDisputes == 3
MaxBatch == 2

\* ------------------------------------------------------ program constants
NULL == -1
LOOKBACK_HOURS == 2
AUTO_RELEASE_DAYS == 7
AUTO_RESOLVE_DAYS == 7
MAX_DISPUTE_AMOUNT == 1000
HOURS_PER_DAY == 24
COMMISSION_RATE_PCT == 2
REP_CAP == 500
SELLER_REP_INC == 10
BUYER_REP_INC == 5
SMALL_AMOUNT == 50
MEDIUM_AMOUNT == 200

\* TransactionStatus
CREATED == "CREATED"
PAYMENT_PENDING == "PAYMENT_PENDING"
PAYMENT_RECEIVED == "PAYMENT_RECEIVED"
IN_ESCROW == "IN_ESCROW"
COMPLETED == "COMPLETED"
DISPUTED == "DISPUTED"
CANCELLED == "CANCELLED"
REFUNDED == "REFUNDED"
TransactionStatus ==
    {CREATED, PAYMENT_PENDING, PAYMENT_RECEIVED, IN_ESCROW,
     COMPLETED, DISPUTED, CANCELLED, REFUNDED}

\* DisputeStatus
OPEN == "OPEN"
INVESTIGATING == "INVESTIGATING"
RESOLVED == "RESOLVED"
CLOSED == "CLOSED"
DisputeStatus == {OPEN, INVESTIGATING, RESOLVED, CLOSED}

\* ------------------------------------------------------------ input sets
TxIds == 1..MaxTx
NoSuchTx == 0
Workers == 1..NumWorkers
Seller == 1
Buyer == 2
Outsider == 3
NoSuchUser == 0
UserIds == {Seller, Buyer, Outsider}
Amounts == {30, 50, 200}
\* The instants at which handlers are observed: inside the lookback window, at
\* its end, and from one hour past the auto-release window on.
TimePoints == {1, LOOKBACK_HOURS} \cup
    {AUTO_RELEASE_DAYS * HOURS_PER_DAY + h : h \in 1..Horizon}
SendOutcomes == {"hash", "null", "raise"}
CheckOutcomes == {"true", "false", "raise"}
ResolveActions == {"release", "refund", "split"}
NotificationTypes == {"payment_confirmed", "trade_completed", "refund_issued"}
NotifKeys == UserIds \X TxIds \X NotificationTypes
TX_HASH == "0xhash"
SELLER_ADDRESS == "seller_addr"
ADMIN_NOTES == "admin notes"
NOTE_SMALL == "Auto-resolved: Small amount dispute - funds released to seller"
NOTE_MEDIUM == "Auto-resolved: Medium amount dispute - funds split between parties"
NOTE_SPLIT_SUFFIX == " (50/50 split - contact admin for details)"

\* Rows a user can have when the engine starts: a new user, and one whose
\* record already carries 50 completed trades (reputation 4.95).
NewUser == [reputation_score |-> 0, total_trades |-> 0, successful_trades |-> 0]
VeteranUser == [reputation_score |-> 495, total_trades |-> 50, successful_trades |-> 50]

VARIABLES
    transactions,   \* table transactions: id -> row
    users,          \* table users: id -> row
    disputes,       \* table disputes: sequence of rows, id = index
    notifications,  \* table notifications: number of rows per (user, tx, type)
    sent,           \* gateway: payouts sent from each escrow wallet to the seller
    now,            \* the clock, in hours
    pc,             \* worker -> position inside its current handler
    call,           \* worker -> arguments of its current handler
    last            \* what the handler that returned last returned

vars == <<transactions, users, disputes, notifications, sent, now, pc, call, last>>
tables == <<transactions, users, notifications, sent>>

\* The private key a handler hands to send_payment: the decrypted key of the
\* escrow wallet, the empty string decrypt_private_key returns when it fails,
\* or NO_KEY when the handler did not reach send_payment.
\* What a handler that computes no statistics leaves in stats.
NO_STATS == <<>>
ESCROW_KEY == "escrow_key"
EMPTY_KEY == ""
NO_KEY == "none"

\* What a handler that asked check_payment nothing leaves in asked.
NOT_ASKED == [t \in {} |-> 0]

\* amount is what the handler handed to send_payment as the amount to pay, and
\* asked what it asked check_payment to look for, both in hundredths of a unit.
NoRet == [op |-> "none", tx |-> NoSuchTx, ok |-> FALSE, msg |-> "", ids |-> {},
          failed |-> {}, key |-> NO_KEY, stats |-> NO_STATS,
          amount |-> 0, asked |-> NOT_ASKED]

Result(op, t, ok, msg) ==
    [op |-> op, tx |-> t, ok |-> ok, msg |-> msg, ids |-> {}, failed |-> {},
     key |-> NO_KEY, stats |-> NO_STATS, amount |-> 0, asked |-> NOT_ASKED]
\* What a sweep leaves behind: the rows it selected (ids) and, in failed, the
\* rows for which it logged an error.
SweepResult(op, ok, ids) ==
    [op |-> op, tx |-> NoSuchTx, ok |-> ok, msg |-> "", ids |-> ids, failed |-> {},
     key |-> NO_KEY, stats |-> NO_STATS, amount |-> 0, asked |-> NOT_ASKED]

\* release_escrow paying out the amount the buyer was asked to pay in
PayoutAmount_WithCommission(tx) == tx.amount * 100 + tx.amount * tx.commission_rate

\* release_escrow: the amount argument of send_payment, float(transaction.amount)
PayoutAmount(tx) == tx.amount * 100

\* _check_transaction_payment: total_expected, amount + amount * commission_rate
ExpectedAmount(tx) == tx.amount * 100 + tx.amount * tx.commission_rate

\* What release_escrow returns once it has called send_payment with key.
SendResult(t, ok, msg, key) ==
    [Result("release_escrow", t, ok, msg) EXCEPT
        !.key = key, !.amount = PayoutAmount(transactions[t])]

\* What a worker remembers across a wait: the handler, its arguments and, for
\* the sweep, the selected rows (todo) and what it will return (ret).
NoCall == [op |-> "none", tx |-> NoSuchTx, user |-> NoSuchUser, todo |-> {}, ret |-> NoRet]

\* A row as the trade-creation flow stores it (column defaults of Transaction).
NewTransaction(amount, status, buyer, address) ==
    [status |-> status,
     amount |-> amount,
     seller_id |-> Seller,
     buyer_id |-> buyer,
     seller_wallet_address |-> address,
     commission_rate |-> COMMISSION_RATE_PCT,
     commission_amount |-> 0,
     created_at |-> 0,
     payment_received_at |-> NULL,
     completed_at |-> NULL,
     blockchain_tx_hash |-> ""]

NewDispute(t, u, at) ==
    [transaction_id |-> t,
     initiated_by |-> u,
     status |-> OPEN,
     resolved_by_admin |-> FALSE,
     resolution_notes |-> "",
     created_at |-> at,
     resolved_at |-> NULL]

Init ==
    /\ transactions \in [TxIds -> {NewTransaction(a, s, b, addr) :
            a \in Amounts, s \in {CREATED, PAYMENT_PENDING},
            b \in {Buyer, NULL}, addr \in {SELLER_ADDRESS, ""}}]
    /\ users \in {[u \in UserIds |-> IF u = Outsider THEN NewUser ELSE row] :
            row \in {NewUser, VeteranUser}}
    /\ disputes = <<>>
    /\ notifications = [k \in NotifKeys |-> 0]
    /\ sent = [t \in TxIds |-> 0]
    /\ now = 0
    /\ pc = [w \in Workers |-> "idle"]
    /\ call = [w \in Workers |-> NoCall]
    /\ last = NoRet


\* ---------------------------------------------------------------- helpers
Min(a, b) == IF a < b THEN a ELSE b

LowestId(S) == CHOOSE x \in S : \A y \in S : x <= y

\* Bump without the cap at 5.0
Bump_Uncapped(row, inc) ==
    [row EXCEPT !.total_trades = @ + 1,
                !.successful_trades = @ + 1,
                !.reputation_score = @ + inc]

Bump(row, inc) ==
    [row EXCEPT !.total_trades = @ + 1,
                !.successful_trades = @ + 1,
                !.reputation_score = Min(REP_CAP, @ + inc)]

\* UpdateUserStats that counts the trade for the seller only
UpdateUserStats_SellerOnly(us, tx) ==
    [us EXCEPT ![tx.seller_id] = Bump(@, SELLER_REP_INC)]

\* EscrowManager._update_user_stats
UpdateUserStats(us, tx) ==
    LET afterSeller == [us EXCEPT ![tx.seller_id] = Bump(@, SELLER_REP_INC)]
    IN  IF tx.buyer_id # NULL
        THEN [afterSeller EXCEPT ![tx.buyer_id] = Bump(@, BUYER_REP_INC)]
        ELSE afterSeller

\* One Notification row for the seller, and one for the buyer if there is one.
NotifyParties(nt, tx, t, type) ==
    LET toSeller == [nt EXCEPT ![<<tx.seller_id, t, type>>] = @ + 1]
    IN  IF tx.buyer_id # NULL
        THEN [toSeller EXCEPT ![<<tx.buyer_id, t, type>>] = @ + 1]
        ELSE toSeller

\* amount * commission_rate, in hundredths of a unit
Commission(tx) == tx.amount * tx.commission_rate

Db == [transactions |-> transactions, users |-> users,
       notifications |-> notifications, sent |-> sent]

\* ConfirmPayment storing the total expected from the buyer as the commission
ConfirmPayment_StoresTotalExpected(db, t, at) ==
    LET tx == db.transactions[t]
        confirmed == [tx EXCEPT !.status = IN_ESCROW,
                                !.payment_received_at = at,
                                !.commission_amount = tx.amount * 100 + Commission(tx)]
    IN  [db EXCEPT !.transactions[t] = confirmed,
                   !.notifications = NotifyParties(@, confirmed, t, "payment_confirmed")]

\* EscrowManager._check_transaction_payment, on a positive check_payment
ConfirmPayment(db, t, at) ==
    LET tx == db.transactions[t]
        confirmed == [tx EXCEPT !.status = IN_ESCROW,
                                !.payment_received_at = at,
                                !.commission_amount = Commission(tx)]
    IN  [db EXCEPT !.transactions[t] = confirmed,
                   !.notifications = NotifyParties(@, confirmed, t, "payment_confirmed")]

\* ReleaseCheck that does not look for the seller's payout address
ReleaseCheck_IgnoresAddress(tx) ==
    IF tx.status # IN_ESCROW THEN "not in escrow status" ELSE "ok"

\* ReleaseCheck that also lets a disputed transaction through
ReleaseCheck_AllowsDisputed(tx) ==
    IF tx.status \notin {IN_ESCROW, DISPUTED} THEN "not in escrow status"
    ELSE IF tx.seller_wallet_address = "" THEN "no seller wallet address"
    ELSE "ok"

\* EscrowManager.release_escrow: the checks made on the row just read
ReleaseCheck(tx) ==
    IF tx.status # IN_ESCROW THEN "not in escrow status"
    ELSE IF tx.seller_wallet_address = "" THEN "no seller wallet address"
    ELSE "ok"

\* EscrowManager.release_escrow: the writes made once send_payment returned a hash
ReleaseCommit(db, t, at) ==
    LET tx == db.transactions[t]
        done == [tx EXCEPT !.status = COMPLETED,
                           !.completed_at = at,
                           !.blockchain_tx_hash = TX_HASH]
    IN  [transactions |-> [db.transactions EXCEPT ![t] = done],
         users |-> UpdateUserStats(db.users, done),
         notifications |-> NotifyParties(db.notifications, done, t, "trade_completed"),
         sent |-> [db.sent EXCEPT ![t] = @ + 1]]

\* EscrowManager.refund_escrow: the checks
RefundCheck(tx) ==
    IF tx.status \notin {IN_ESCROW, DISPUTED} THEN "cannot be refunded"
    ELSE IF tx.buyer_id = NULL THEN "no buyer"
    ELSE "ok"

\* RefundCommit that counts the refunded trade for both parties
RefundCommit_CountsTrade(db, t, at) ==
    LET tx == db.transactions[t]
        back == [tx EXCEPT !.status = REFUNDED, !.completed_at = at]
    IN  [db EXCEPT !.transactions[t] = back,
                   !.users = UpdateUserStats(@, back),
                   !.notifications = NotifyParties(@, back, t, "refund_issued")]

\* EscrowManager.refund_escrow: the writes
RefundCommit(db, t, at) ==
    LET tx == db.transactions[t]
        back == [tx EXCEPT !.status = REFUNDED, !.completed_at = at]
    IN  [db EXCEPT !.transactions[t] = back,
                   !.notifications = NotifyParties(@, back, t, "refund_issued")]

Store(db) ==
    /\ transactions' = db.transactions
    /\ users' = db.users
    /\ notifications' = db.notifications
    /\ sent' = db.sent

\* A handler returns r to its caller.
Return(r) == last' = r

\* ---------------------------------------------------------------- release
\* EscrowManager.release_escrow up to the await on send_payment.
release_escrow_begin(w, t, fault) ==
    /\ pc[w] = "idle"
    /\ IF fault \/ t \notin TxIds
       THEN /\ Return(Result("release_escrow", t, FALSE,
                                IF fault THEN "error" ELSE "not found"))
            /\ UNCHANGED <<pc, call>>
       ELSE IF ReleaseCheck(transactions[t]) # "ok"
       THEN /\ Return(Result("release_escrow", t, FALSE, ReleaseCheck(transactions[t])))
            /\ UNCHANGED <<pc, call>>
       ELSE /\ pc' = [pc EXCEPT ![w] = "release_sending"]
            /\ call' = [call EXCEPT ![w] = [NoCall EXCEPT !.op = "release_escrow", !.tx = t]]
            /\ UNCHANGED last
    /\ UNCHANGED <<tables, disputes, now>>

\* EscrowManager.release_escrow from the return of send_payment to the commit.
release_escrow_finish(w, outcome) ==
    /\ pc[w] = "release_sending"
    /\ pc' = [pc EXCEPT ![w] = "idle"]
    /\ call' = [call EXCEPT ![w] = NoCall]
    /\ IF outcome = "hash"
       THEN /\ Store(ReleaseCommit(Db, call[w].tx, now))
            /\ Return(SendResult(call[w].tx, TRUE, "released", ESCROW_KEY))
       ELSE /\ Return(SendResult(call[w].tx, FALSE,
                                 IF outcome = "null" THEN "send failed" ELSE "error",
                                 ESCROW_KEY))
            /\ UNCHANGED tables
    /\ UNCHANGED <<disputes, now>>

\* EscrowManager.release_escrow run from its first line to its return with no
\* other handler in between.
release_escrow(t, outcome, fault) ==
    /\ IF fault \/ t \notin TxIds
       THEN /\ Return(Result("release_escrow", t, FALSE,
                             IF fault THEN "error" ELSE "not found"))
            /\ UNCHANGED tables
       ELSE IF ReleaseCheck(transactions[t]) # "ok"
       THEN /\ Return(Result("release_escrow", t, FALSE, ReleaseCheck(transactions[t])))
            /\ UNCHANGED tables
       ELSE IF outcome = "hash"
       THEN /\ Store(ReleaseCommit(Db, t, now))
            /\ Return(SendResult(t, TRUE, "released", ESCROW_KEY))
       ELSE /\ Return(SendResult(t, FALSE,
                                 IF outcome = "null" THEN "send failed" ELSE "error",
                                 ESCROW_KEY))
            /\ UNCHANGED tables
    /\ UNCHANGED <<disputes, now, pc, call>>

\* EscrowManager.release_escrow when decrypt_private_key fails: it logs the
\* error and returns the empty string, and release_escrow goes on with it.
release_escrow_undecryptable(t, outcome) ==
    /\ t \in TxIds
    /\ IF ReleaseCheck(transactions[t]) # "ok"
       THEN /\ Return(Result("release_escrow", t, FALSE, ReleaseCheck(transactions[t])))
            /\ UNCHANGED tables
       ELSE IF outcome = "hash"
       THEN /\ Store(ReleaseCommit(Db, t, now))
            /\ Return(SendResult(t, TRUE, "released", EMPTY_KEY))
       ELSE /\ Return(SendResult(t, FALSE,
                                 IF outcome = "null" THEN "send failed" ELSE "error",
                                 EMPTY_KEY))
            /\ UNCHANGED tables
    /\ UNCHANGED <<disputes, now, pc, call>>

\* ----------------------------------------------------------------- refund
\* refund_escrow that swallows a store fault and answers as if it had refunded
refund_escrow_FaultReportedDone(t, fault) ==
    /\ IF t \notin TxIds
       THEN /\ Return(Result("refund_escrow", t, FALSE, "not found"))
            /\ UNCHANGED tables
       ELSE IF RefundCheck(transactions[t]) # "ok"
       THEN /\ Return(Result("refund_escrow", t, FALSE, RefundCheck(transactions[t])))
            /\ UNCHANGED tables
       ELSE IF fault
       THEN /\ Return(Result("refund_escrow", t, TRUE, "refunded"))
            /\ UNCHANGED tables
       ELSE /\ Store(RefundCommit(Db, t, now))
            /\ Return(Result("refund_escrow", t, TRUE, "refunded"))
    /\ UNCHANGED <<disputes, now, pc, call>>

\* EscrowManager.refund_escrow
refund_escrow(t, fault) ==
    /\ IF t \notin TxIds
       THEN /\ Return(Result("refund_escrow", t, FALSE, "not found"))
            /\ UNCHANGED tables
       ELSE IF RefundCheck(transactions[t]) # "ok"
       THEN /\ Return(Result("refund_escrow", t, FALSE, RefundCheck(transactions[t])))
            /\ UNCHANGED tables
       ELSE IF fault
       THEN /\ Return(Result("refund_escrow", t, FALSE, "error"))
            /\ UNCHANGED tables
       ELSE /\ Store(RefundCommit(Db, t, now))
            /\ Return(Result("refund_escrow", t, TRUE, "refunded"))
    /\ UNCHANGED <<disputes, now, pc, call>>


\* --------------------------------------------------------------- disputes
DisputeIds == 1..Len(disputes)
NoSuchDispute == 0

HasDispute(ds, t) == \E d \in 1..Len(ds) : ds[d].transaction_id = t

\* DisputeCheck that does not ask whether the caller is a party
DisputeCheck_AnyCaller(tx, t, u, ds) ==
    IF tx.status \notin {IN_ESCROW, PAYMENT_RECEIVED}
    THEN "Transaction cannot be disputed in current state"
    ELSE IF HasDispute(ds, t)
    THEN "Dispute already exists for this transaction"
    ELSE IF tx.amount > MAX_DISPUTE_AMOUNT
    THEN "Transaction amount exceeds dispute limit"
    ELSE "ok"

\* DisputeCheck that turns away an amount equal to the limit
DisputeCheck_LimitExclusive(tx, t, u, ds) ==
    IF tx.status \notin {IN_ESCROW, PAYMENT_RECEIVED}
    THEN "Transaction cannot be disputed in current state"
    ELSE IF u \notin UserIds \/ (u # tx.seller_id /\ u # tx.buyer_id)
    THEN "You are not authorized to dispute this transaction"
    ELSE IF HasDispute(ds, t)
    THEN "Dispute already exists for this transaction"
    ELSE IF tx.amount >= MAX_DISPUTE_AMOUNT
    THEN "Transaction amount exceeds dispute limit"
    ELSE "ok"

\* DisputeCheck that also lets a transaction still awaiting payment through
DisputeCheck_AllowsPending(tx, t, u, ds) ==
    IF tx.status \notin {IN_ESCROW, PAYMENT_RECEIVED, PAYMENT_PENDING}
    THEN "Transaction cannot be disputed in current state"
    ELSE IF u \notin UserIds \/ (u # tx.seller_id /\ u # tx.buyer_id)
    THEN "You are not authorized to dispute this transaction"
    ELSE IF HasDispute(ds, t)
    THEN "Dispute already exists for this transaction"
    ELSE IF tx.amount > MAX_DISPUTE_AMOUNT
    THEN "Transaction amount exceeds dispute limit"
    ELSE "ok"

\* CustomDisputeHandler.create_dispute: the checks, in the code's order
DisputeCheck(tx, t, u, ds) ==
    IF tx.status \notin {IN_ESCROW, PAYMENT_RECEIVED}
    THEN "Transaction cannot be disputed in current state"
    ELSE IF u \notin UserIds \/ (u # tx.seller_id /\ u # tx.buyer_id)
    THEN "You are not authorized to dispute this transaction"
    ELSE IF HasDispute(ds, t)
    THEN "Dispute already exists for this transaction"
    ELSE IF tx.amount > MAX_DISPUTE_AMOUNT
    THEN "Transaction amount exceeds dispute limit"
    ELSE "ok"

\* CustomDisputeHandler.create_dispute up to the insert: the row and the
\* existing dispute are read and checked.
create_dispute_begin(w, t, u, fault) ==
    /\ pc[w] = "idle"
    /\ IF fault \/ t \notin TxIds
       THEN /\ Return(Result("create_dispute", t, FALSE,
                    IF fault THEN "Failed to create dispute" ELSE "Transaction not found"))
            /\ UNCHANGED <<pc, call>>
       ELSE IF DisputeCheck(transactions[t], t, u, disputes) # "ok"
       THEN /\ Return(Result("create_dispute", t, FALSE,
                                DisputeCheck(transactions[t], t, u, disputes)))
            /\ UNCHANGED <<pc, call>>
       ELSE /\ pc' = [pc EXCEPT ![w] = "dispute_checked"]
            /\ call' = [call EXCEPT ![w] = [NoCall EXCEPT !.op = "create_dispute", !.tx = t, !.user = u]]
            /\ UNCHANGED last
    /\ UNCHANGED <<tables, disputes, now>>

\* CustomDisputeHandler.create_dispute: the insert, the status write and the commit.
create_dispute_commit(w) ==
    /\ pc[w] = "dispute_checked"
    /\ pc' = [pc EXCEPT ![w] = "idle"]
    /\ call' = [call EXCEPT ![w] = NoCall]
    /\ disputes' = Append(disputes, NewDispute(call[w].tx, call[w].user, now))
    /\ transactions' = [transactions EXCEPT ![call[w].tx].status = DISPUTED]
    /\ Return(Result("create_dispute", call[w].tx, TRUE, "Dispute created successfully"))
    /\ UNCHANGED <<users, notifications, sent, now>>

\* CustomDisputeHandler.create_dispute run from its first line to its return
\* with no other handler in between.
create_dispute(t, u, fault) ==
    /\ IF fault \/ t \notin TxIds
       THEN /\ Return(Result("create_dispute", t, FALSE,
                    IF fault THEN "Failed to create dispute" ELSE "Transaction not found"))
            /\ UNCHANGED <<disputes, transactions>>
       ELSE IF DisputeCheck(transactions[t], t, u, disputes) # "ok"
       THEN /\ Return(Result("create_dispute", t, FALSE,
                             DisputeCheck(transactions[t], t, u, disputes)))
            /\ UNCHANGED <<disputes, transactions>>
       ELSE /\ disputes' = Append(disputes, NewDispute(t, u, now))
            /\ transactions' = [transactions EXCEPT ![t].status = DISPUTED]
            /\ Return(Result("create_dispute", t, TRUE, "Dispute created successfully"))
    /\ UNCHANGED <<users, notifications, sent, now, pc, call>>

\* AutoResolveAction with the medium tier closed at 200
AutoResolveAction_MediumIncludes200(amount) ==
    IF amount < SMALL_AMOUNT THEN "release"
    ELSE IF amount <= MEDIUM_AMOUNT THEN "split"
    ELSE "manual"

\* AutoResolveAction with the small tier closed at 50
AutoResolveAction_SmallIncludes50(amount) ==
    IF amount <= SMALL_AMOUNT THEN "release"
    ELSE IF amount < MEDIUM_AMOUNT THEN "split"
    ELSE "manual"

\* CustomDisputeHandler._auto_resolve_single_dispute: the tier of an amount
AutoResolveAction(amount) ==
    IF amount < SMALL_AMOUNT THEN "release"
    ELSE IF amount < MEDIUM_AMOUNT THEN "split"
    ELSE "manual"

AutoResolveNotes(action) ==
    IF action = "release" THEN NOTE_SMALL ELSE NOTE_MEDIUM \o NOTE_SPLIT_SUFFIX

\* CustomDisputeHandler._auto_resolve_single_dispute on dispute d;
\* st is the pair of tables <<disputes, transactions>>.
AutoResolveSingle(st, d, at) ==
    LET ds == st[1]
        txs == st[2]
        t == ds[d].transaction_id
        action == AutoResolveAction(txs[t].amount)
    IN  IF action = "manual" THEN st
        ELSE << [ds EXCEPT ![d].status = RESOLVED,
                           ![d].resolved_by_admin = TRUE,
                           ![d].resolution_notes = AutoResolveNotes(action),
                           ![d].resolved_at = at],
                [txs EXCEPT ![t].status = COMPLETED,
                            ![t].completed_at = at] >>

RECURSIVE AutoResolveAll(_, _, _, _)
AutoResolveAll(st, todo, failing, at) ==
    IF todo = {} THEN st
    ELSE LET d == LowestId(todo)
         IN  AutoResolveAll(IF d \in failing THEN st ELSE AutoResolveSingle(st, d, at),
                            todo \ {d}, failing, at)

\* OldDisputes that does not look at the status of a dispute
OldDisputes_AnyStatus(ds, at) ==
    {d \in 1..Len(ds) : ds[d].created_at < at - AUTO_RESOLVE_DAYS * HOURS_PER_DAY}

\* The query of auto_resolve_disputes
OldDisputes(ds, at) ==
    {d \in 1..Len(ds) : /\ ds[d].status = OPEN
                        /\ ds[d].created_at < at - AUTO_RESOLVE_DAYS * HOURS_PER_DAY}

\* CustomDisputeHandler.auto_resolve_disputes; failing are the disputes whose
\* single resolution raises (caught per dispute: that one is left as it is).
auto_resolve_disputes(failing) ==
    LET old == OldDisputes(disputes, now)
        st == AutoResolveAll(<<disputes, transactions>>, old, failing, now)
    IN  /\ failing \subseteq old
        /\ disputes' = st[1]
        /\ transactions' = st[2]
        /\ Return(SweepResult("auto_resolve_disputes", TRUE, old))
        /\ UNCHANGED <<users, notifications, sent, now, pc, call>>


\* ----------------------------------------------------------- admin routes
\* admin_routes.release_transaction
release_transaction(t, fault) ==
    /\ IF fault \/ t \notin TxIds
       THEN /\ Return(Result("release_transaction", t, FALSE,
                    IF fault THEN "Internal error occurred" ELSE "Transaction not found"))
            /\ UNCHANGED transactions
       ELSE IF transactions[t].status # IN_ESCROW
       THEN /\ Return(Result("release_transaction", t, FALSE,
                                "Transaction not in escrow status"))
            /\ UNCHANGED transactions
       ELSE /\ transactions' = [transactions EXCEPT ![t].status = COMPLETED,
                                                    ![t].completed_at = now]
            /\ Return(Result("release_transaction", t, TRUE, "released successfully"))
    /\ UNCHANGED <<users, disputes, notifications, sent, now, pc, call>>

\* admin_routes.refund_transaction
refund_transaction(t, fault) ==
    /\ IF fault \/ t \notin TxIds
       THEN /\ Return(Result("refund_transaction", t, FALSE,
                    IF fault THEN "Internal error occurred" ELSE "Transaction not found"))
            /\ UNCHANGED transactions
       ELSE IF transactions[t].status \notin {IN_ESCROW, DISPUTED}
       THEN /\ Return(Result("refund_transaction", t, FALSE,
                                "Transaction cannot be refunded"))
            /\ UNCHANGED transactions
       ELSE /\ transactions' = [transactions EXCEPT ![t].status = REFUNDED,
                                                    ![t].completed_at = now]
            /\ Return(Result("refund_transaction", t, TRUE, "refunded successfully"))
    /\ UNCHANGED <<users, disputes, notifications, sent, now, pc, call>>

\* resolve_dispute that marks the transaction COMPLETED for a refund too
resolve_dispute_RefundCompletes(d, action, fault) ==
    /\ IF fault \/ d \notin DisputeIds
       THEN /\ Return(Result("resolve_dispute", NoSuchTx, FALSE,
                    IF fault THEN "Internal error occurred" ELSE "Dispute not found"))
            /\ UNCHANGED <<disputes, transactions>>
       ELSE LET t == disputes[d].transaction_id
            IN  /\ disputes' = [disputes EXCEPT ![d].status = RESOLVED,
                                                ![d].resolved_by_admin = TRUE,
                                                ![d].resolution_notes = ADMIN_NOTES,
                                                ![d].resolved_at = now]
                /\ IF action \in {"release", "refund"}
                   THEN transactions' = [transactions EXCEPT ![t].status = COMPLETED,
                                                             ![t].completed_at = now]
                   ELSE UNCHANGED transactions
                /\ Return(Result("resolve_dispute", t, action \in {"release", "refund"},
                                    action))
    /\ UNCHANGED <<users, notifications, sent, now, pc, call>>

\* admin_routes.resolve_dispute: the dispute is written before the action is
\* looked at, and the response is returned from inside the transaction scope,
\* which commits on the way out.
resolve_dispute(d, action, fault) ==
    /\ IF fault \/ d \notin DisputeIds
       THEN /\ Return(Result("resolve_dispute", NoSuchTx, FALSE,
                    IF fault THEN "Internal error occurred" ELSE "Dispute not found"))
            /\ UNCHANGED <<disputes, transactions>>
       ELSE LET t == disputes[d].transaction_id
            IN  /\ disputes' = [disputes EXCEPT ![d].status = RESOLVED,
                                                ![d].resolved_by_admin = TRUE,
                                                ![d].resolution_notes = ADMIN_NOTES,
                                                ![d].resolved_at = now]
                /\ IF action = "release"
                   THEN transactions' = [transactions EXCEPT ![t].status = COMPLETED,
                                                             ![t].completed_at = now]
                   ELSE IF action = "refund"
                   THEN transactions' = [transactions EXCEPT ![t].status = REFUNDED,
                                                             ![t].completed_at = now]
                   ELSE UNCHANGED transactions
                /\ Return(Result("resolve_dispute", t, action \in {"release", "refund"},
                                    action))
    /\ UNCHANGED <<users, notifications, sent, now, pc, call>>

\* ---------------------------------------------------------- payment sweep
\* PendingIds without the lookback window
PendingIds_NoLookback(txs, at) ==
    {t \in TxIds : txs[t].status = PAYMENT_PENDING}

\* First query of process_pending_transactions
PendingIds(txs, at) ==
    {t \in DOMAIN txs : /\ txs[t].status = PAYMENT_PENDING
                   /\ txs[t].created_at > at - LOOKBACK_HOURS}

\* Second query of process_pending_transactions (a NULL timestamp never matches)
EscrowIds(txs, at) ==
    {t \in DOMAIN txs : /\ txs[t].status = IN_ESCROW
                   /\ txs[t].payment_received_at # NULL
                   /\ txs[t].payment_received_at < at - AUTO_RELEASE_DAYS * HOURS_PER_DAY}

\* CheckAll taking a check that raised for a payment that arrived
RECURSIVE CheckAll_ConfirmsOnRaise(_, _, _, _)
CheckAll_ConfirmsOnRaise(db, todo, checked, at) ==
    IF todo = {} THEN db
    ELSE LET t == LowestId(todo)
         IN  CheckAll_ConfirmsOnRaise(
                 IF checked[t] # "false" THEN ConfirmPayment(db, t, at) ELSE db,
                 todo \ {t}, checked, at)

\* CheckAll whose loop is left by the first check that raises
RECURSIVE CheckAll_StopsOnRaise(_, _, _, _)
CheckAll_StopsOnRaise(db, todo, checked, at) ==
    IF todo = {} THEN db
    ELSE LET t == LowestId(todo)
         IN  IF checked[t] = "raise" THEN db
             ELSE CheckAll_StopsOnRaise(
                      IF checked[t] = "true" THEN ConfirmPayment(db, t, at) ELSE db,
                      todo \ {t}, checked, at)

\* The loop over pending_transactions: _check_transaction_payment on each; a
\* check that raises is caught and logged, and the row is left alone.
RECURSIVE CheckAll(_, _, _, _)
CheckAll(db, todo, checked, at) ==
    IF todo = {} THEN db
    ELSE LET t == LowestId(todo)
         IN  CheckAll(IF checked[t] = "true" THEN ConfirmPayment(db, t, at) ELSE db,
                      todo \ {t}, checked, at)

\* EscrowManager._check_auto_release followed by release_escrow(auto_release=True)
AutoRelease(db, t, outcome, at) ==
    IF /\ db.transactions[t].payment_received_at # NULL
       /\ at - db.transactions[t].payment_received_at > AUTO_RELEASE_DAYS * HOURS_PER_DAY
       /\ ReleaseCheck(db.transactions[t]) = "ok"
       /\ outcome = "hash"
    THEN ReleaseCommit(db, t, at)
    ELSE db

\* The loop releasing every transaction that passes the checks of
\* release_escrow, however long ago its payment was confirmed
RECURSIVE ReleaseEach_WithoutWindow(_, _, _, _)
ReleaseEach_WithoutWindow(db, todo, outcomes, at) ==
    IF todo = {} THEN db
    ELSE LET t == LowestId(todo)
         IN  ReleaseEach_WithoutWindow(
                 IF ReleaseCheck(db.transactions[t]) = "ok" /\ outcomes[t] = "hash"
                 THEN ReleaseCommit(db, t, at) ELSE db,
                 todo \ {t}, outcomes, at)

ReleaseAll_WithoutWindow(db, todo, outcomes, at) ==
    ReleaseEach_WithoutWindow(db, TxIds, outcomes, at)

\* The loop over escrow_transactions: _check_auto_release on each
RECURSIVE ReleaseAll(_, _, _, _)
ReleaseAll(db, todo, outcomes, at) ==
    IF todo = {} THEN db
    ELSE LET t == LowestId(todo)
         IN  ReleaseAll(AutoRelease(db, t, outcomes[t], at), todo \ {t}, outcomes, at)

\* EscrowManager.process_pending_transactions: checked and outcomes are what
\* check_payment and send_payment answer for each transaction asked about.
process_pending_transactions(checked, outcomes, fault) ==
    LET pending == PendingIds(transactions, now)
        afterChecks == CheckAll(Db, pending, checked, now)
        escrow == EscrowIds(afterChecks.transactions, now)
        afterReleases == ReleaseAll(afterChecks, escrow, outcomes, now)
    IN  /\ IF fault
           THEN /\ UNCHANGED tables
                /\ Return(SweepResult("process_pending_transactions", FALSE, {}))
           ELSE /\ Store(afterReleases)
                /\ Return([SweepResult("process_pending_transactions", TRUE,
                                       pending \cup escrow)
                              EXCEPT !.failed = {t \in pending : checked[t] = "raise"},
                                     !.asked = [t \in pending |->
                                                   ExpectedAmount(transactions[t])]])
        /\ UNCHANGED <<disputes, now, pc, call>>

\* _check_auto_release and the checks release_escrow makes before send_payment
AutoReleaseReady(tx, at) ==
    /\ tx.payment_received_at # NULL
    /\ at - tx.payment_received_at > AUTO_RELEASE_DAYS * HOURS_PER_DAY
    /\ ReleaseCheck(tx) = "ok"

\* process_pending_transactions up to the first await on send_payment: the
\* payment checks, the second query, and the rows of it that are turned away
\* before any payout is asked for.
process_pending_transactions_begin(w, checked) ==
    /\ pc[w] = "idle"
    /\ LET pending == PendingIds(transactions, now)
           afterChecks == CheckAll(Db, pending, checked, now)
           escrow == EscrowIds(afterChecks.transactions, now)
           ready == {t \in escrow : AutoReleaseReady(afterChecks.transactions[t], now)}
           ret == [SweepResult("process_pending_transactions", TRUE, pending \cup escrow)
                      EXCEPT !.failed = {t \in pending : checked[t] = "raise"},
                             !.asked = [t \in pending |-> ExpectedAmount(transactions[t])]]
       IN  /\ Store(afterChecks)
           /\ IF ready = {}
              THEN /\ Return(ret)
                   /\ UNCHANGED <<pc, call>>
              ELSE /\ pc' = [pc EXCEPT ![w] = "sweep_sending"]
                   /\ call' = [call EXCEPT ![w] =
                          [NoCall EXCEPT !.op = "process_pending_transactions",
                                         !.tx = LowestId(ready),
                                         !.todo = escrow, !.ret = ret]]
                   /\ UNCHANGED last
    /\ UNCHANGED <<disputes, now>>

\* process_pending_transactions from the return of send_payment: the writes of
\* release_escrow on the row read before the wait, then the rest of the loop
\* up to the next await or to the end of the sweep.
process_pending_transactions_finish(w, outcome) ==
    /\ pc[w] = "sweep_sending"
    /\ LET t == call[w].tx
           released == IF outcome = "hash" THEN ReleaseCommit(Db, t, now) ELSE Db
           ready == {x \in call[w].todo :
                        x > t /\ AutoReleaseReady(released.transactions[x], now)}
       IN  /\ Store(released)
           /\ IF ready = {}
              THEN /\ pc' = [pc EXCEPT ![w] = "idle"]
                   /\ call' = [call EXCEPT ![w] = NoCall]
                   /\ Return(call[w].ret)
              ELSE /\ call' = [call EXCEPT ![w].tx = LowestId(ready)]
                   /\ UNCHANGED <<pc, last>>
    /\ UNCHANGED <<disputes, now>>

\* ------------------------------------------------------------- statistics
RECURSIVE SumHours(_, _)
\* sum of (resolved_at - created_at) over the disputes in S, in hours
SumHours(ds, S) ==
    IF S = {} THEN 0
    ELSE LET d == LowestId(S)
         IN  (ds[d].resolved_at - ds[d].created_at) + SumHours(ds, S \ {d})

\* round(n / d, 0) as Python rounds: to the nearest integer, a tie to the even one
RoundHalfEven(n, d) ==
    LET q == n \div d
        r == n % d
    IN  IF 2 * r < d THEN q
        ELSE IF 2 * r > d THEN q + 1
        ELSE IF q % 2 = 0 THEN q ELSE q + 1

\* get_dispute_statistics dividing the summed hours by the number of all disputes
DisputeStatistics_AverageOverAll(ds) ==
    LET all == 1..Len(ds)
        open == {d \in all : ds[d].status = OPEN}
        resolved == {d \in all : ds[d].status = RESOLVED}
        timed == {d \in resolved : ds[d].resolved_at # NULL}
    IN  [total_disputes |-> Len(ds),
         open_disputes |-> Cardinality(open),
         resolved_disputes |-> Cardinality(resolved),
         resolution_rate |-> <<Cardinality(resolved) * 100,
                               IF Len(ds) > 1 THEN Len(ds) ELSE 1>>,
         avg_resolution_hours |->
             IF timed = {} THEN 0
             ELSE RoundHalfEven(10 * SumHours(ds, timed), Len(ds))]

\* The dictionary of get_dispute_statistics.  resolution_rate is the fraction
\* <<numerator, denominator>> of resolved / max(total, 1) * 100, and
\* avg_resolution_hours is kept in tenths of an hour, the precision that
\* round(avg_resolution_time, 1) leaves.
DisputeStatistics(ds) ==
    LET all == 1..Len(ds)
        open == {d \in all : ds[d].status = OPEN}
        resolved == {d \in all : ds[d].status = RESOLVED}
        timed == {d \in resolved : ds[d].resolved_at # NULL}
    IN  [total_disputes |-> Len(ds),
         open_disputes |-> Cardinality(open),
         resolved_disputes |-> Cardinality(resolved),
         resolution_rate |-> <<Cardinality(resolved) * 100,
                               IF Len(ds) > 1 THEN Len(ds) ELSE 1>>,
         avg_resolution_hours |->
             IF timed = {} THEN 0
             ELSE RoundHalfEven(10 * SumHours(ds, timed), Cardinality(timed))]

\* The dictionary get_dispute_statistics returns from its except branch.
ZeroStatistics ==
    [total_disputes |-> 0, open_disputes |-> 0, resolved_disputes |-> 0,
     resolution_rate |-> <<0, 1>>, avg_resolution_hours |-> 0]

\* CustomDisputeHandler.get_dispute_statistics
get_dispute_statistics(fault) ==
    /\ Return([Result("get_dispute_statistics", NoSuchTx, ~fault, "") EXCEPT
                  !.stats = IF fault THEN ZeroStatistics ELSE DisputeStatistics(disputes)])
    /\ UNCHANGED <<tables, disputes, now, pc, call>>

\* The dictionary of get_transaction_summary (the volume per currency left out).
TransactionSummary(txs) ==
    LET completed == {t \in TxIds : txs[t].status = COMPLETED}
    IN  [total_transactions |-> Cardinality(TxIds),
         completed_transactions |-> Cardinality(completed),
         pending_transactions |->
             Cardinality({t \in TxIds : txs[t].status \in {CREATED, PAYMENT_PENDING, IN_ESCROW}}),
         disputed_transactions |-> Cardinality({t \in TxIds : txs[t].status = DISPUTED}),
         success_rate |-> <<Cardinality(completed) * 100,
                            IF Cardinality(TxIds) > 1 THEN Cardinality(TxIds) ELSE 1>>]

\* EscrowManager.get_transaction_summary: the summary, or {} from the except branch
get_transaction_summary(fault) ==
    /\ Return([Result("get_transaction_summary", NoSuchTx, ~fault, "") EXCEPT
                  !.stats = IF fault THEN NO_STATS ELSE TransactionSummary(transactions)])
    /\ UNCHANGED <<tables, disputes, now, pc, call>>

\* CustomDisputeHandler.auto_resolve_disputes when its query raises: the except
\* branch answers {'success': False, ...} and nothing was written.
auto_resolve_disputes_failed ==
    /\ Return(SweepResult("auto_resolve_disputes", FALSE, {}))
    /\ UNCHANGED <<tables, disputes, now, pc, call>>

\* ------------------------------------------------------------------ clock
Tick(at) ==
    /\ at > now
    /\ now' = at
    /\ UNCHANGED <<tables, disputes, pc, call, last>>

\* ------------------------------------------------------------------- next
\* Handlers run one after another, and the clock advances between them.
Next ==
    \/ \E t \in TxIds, outcome \in SendOutcomes : release_escrow(t, outcome, FALSE)
    \/ \E t \in TxIds : refund_escrow(t, FALSE)
    \/ \E t \in TxIds, u \in UserIds : create_dispute(t, u, FALSE)
    \/ \E failing \in SUBSET DisputeIds : auto_resolve_disputes(failing)
    \/ \E t \in TxIds : release_transaction(t, FALSE)
    \/ \E t \in TxIds : refund_transaction(t, FALSE)
    \/ \E d \in DisputeIds, action \in ResolveActions : resolve_dispute(d, action, FALSE)
    \/ \E checked \in [TxIds -> CheckOutcomes], outcomes \in [TxIds -> SendOutcomes] :
           process_pending_transactions(checked, outcomes, FALSE)
    \/ \E at \in TimePoints : Tick(at)

Spec == Init /\ [][Next]_vars

\* Handlers overlap: release_escrow and create_dispute are each two steps of a
\* worker thread, and every other handler may run between the two.
ConcNext ==
    \/ \E w \in Workers, t \in TxIds : release_escrow_begin(w, t, FALSE)
    \/ \E w \in Workers, outcome \in SendOutcomes : release_escrow_finish(w, outcome)
    \/ \E w \in Workers, t \in TxIds, u \in UserIds : create_dispute_begin(w, t, u, FALSE)
    \/ \E w \in Workers : create_dispute_commit(w)
    \/ \E t \in TxIds : refund_escrow(t, FALSE)
    \/ \E t \in TxIds : release_transaction(t, FALSE)
    \/ \E t \in TxIds : refund_transaction(t, FALSE)
    \/ \E d \in DisputeIds, action \in ResolveActions : resolve_dispute(d, action, FALSE)
    \/ \E checked \in [TxIds -> CheckOutcomes], outcomes \in [TxIds -> SendOutcomes] :
           process_pending_transactions(checked, outcomes, FALSE)

ConcSpec == Init /\ [][ConcNext]_vars

\* Handlers called with every kind of argument: ids of rows that do not exist,
\* callers who are no party, amounts at and above the dispute limit, and a
\* store fault inside the handler.
FaultAmounts == {SMALL_AMOUNT, MAX_DISPUTE_AMOUNT, MAX_DISPUTE_AMOUNT + 1}

FaultInit ==
    /\ transactions \in [TxIds -> {NewTransaction(a, s, b, addr) :
            a \in FaultAmounts, s \in {CREATED, PAYMENT_PENDING},
            b \in {Buyer, NULL}, addr \in {SELLER_ADDRESS, ""}}]
    /\ users \in {[u \in UserIds |-> IF u = Outsider THEN NewUser ELSE row] :
            row \in {NewUser, VeteranUser}}
    /\ disputes = <<>>
    /\ notifications = [k \in NotifKeys |-> 0]
    /\ sent = [t \in TxIds |-> 0]
    /\ now = 0
    /\ pc = [w \in Workers |-> "idle"]
    /\ call = [w \in Workers |-> NoCall]
    /\ last = NoRet

FaultNext ==
    \/ \E t \in TxIds \cup {NoSuchTx}, outcome \in SendOutcomes, fault \in BOOLEAN :
           release_escrow(t, outcome, fault)
    \/ \E t \in TxIds, outcome \in SendOutcomes : release_escrow_undecryptable(t, outcome)
    \/ \E t \in TxIds \cup {NoSuchTx}, fault \in BOOLEAN : refund_escrow(t, fault)
    \/ \E t \in TxIds \cup {NoSuchTx}, u \in UserIds \cup {NoSuchUser}, fault \in BOOLEAN :
           create_dispute(t, u, fault)
    \/ \E t \in TxIds \cup {NoSuchTx}, fault \in BOOLEAN : release_transaction(t, fault)
    \/ \E t \in TxIds \cup {NoSuchTx}, fault \in BOOLEAN : refund_transaction(t, fault)
    \/ \E d \in DisputeIds \cup {NoSuchDispute}, action \in ResolveActions, fault \in BOOLEAN :
           resolve_dispute(d, action, fault)
    \/ \E checked \in [TxIds -> CheckOutcomes], outcomes \in [TxIds -> SendOutcomes],
          fault \in BOOLEAN :
           process_pending_transactions(checked, outcomes, fault)
    \/ auto_resolve_disputes_failed
    \/ \E fault \in BOOLEAN : get_dispute_statistics(fault)
    \/ \E fault \in BOOLEAN : get_transaction_summary(fault)

FaultSpec == FaultInit /\ [][FaultNext]_vars

\* ------------------------------------------------ the dispute dashboard
\* The dispute table as trades other than the modelled ones have left it: up
\* to MaxDisputes rows, each OPEN, or RESOLVED by an administrator one to
\* three hours after it was opened.  get_dispute_statistics reads status,
\* created_at and resolved_at only.
StatLatencies == 1..3
StatRows(t) ==
    {NewDispute(t, Buyer, 0)} \cup
    {[NewDispute(t, Buyer, 0) EXCEPT !.status = RESOLVED, !.resolved_by_admin = TRUE,
                                     !.resolved_at = h] : h \in StatLatencies}
StatsInit ==
    /\ transactions = [t \in TxIds |-> NewTransaction(200, CREATED, NULL, SELLER_ADDRESS)]
    /\ users = [u \in UserIds |-> NewUser]
    /\ \E n \in 0..MaxDisputes :
           disputes \in {ds \in [1..n -> UNION {StatRows(MaxTx + d) : d \in 1..MaxDisputes}] :
                             \A d \in 1..n : ds[d].transaction_id = MaxTx + d}
    /\ notifications = [k \in NotifKeys |-> 0]
    /\ sent = [t \in TxIds |-> 0]
    /\ now = 0
    /\ pc = [w \in Workers |-> "idle"]
    /\ call = [w \in Workers |-> NoCall]
    /\ last = NoRet

StatsNext == \E fault \in BOOLEAN : get_dispute_statistics(fault)

StatsSpec == StatsInit /\ [][StatsNext]_vars

\* ------------------------------------- the sweep beside request handlers
\* Transactions whose payment was confirmed at hour 0, and a sweep that other
\* handlers overtake while it waits for send_payment.
SweepInit ==
    /\ \E paid \in [TxIds -> {NewTransaction(a, PAYMENT_PENDING, b, addr) :
               a \in Amounts, b \in {Buyer, NULL}, addr \in {SELLER_ADDRESS, ""}}] :
           LET confirmed == CheckAll([transactions |-> paid,
                                      users |-> [u \in UserIds |-> NewUser],
                                      notifications |-> [k \in NotifKeys |-> 0],
                                      sent |-> [t \in TxIds |-> 0]],
                                     TxIds, [t \in TxIds |-> "true"], 0)
           IN  /\ transactions = confirmed.transactions
               /\ users = confirmed.users
               /\ notifications = confirmed.notifications
               /\ sent = confirmed.sent
    /\ disputes = <<>>
    /\ now = 0
    /\ pc = [w \in Workers |-> "idle"]
    /\ call = [w \in Workers |-> NoCall]
    /\ last = NoRet

SweepNext ==
    \/ \E w \in Workers, checked \in [TxIds -> CheckOutcomes] :
           process_pending_transactions_begin(w, checked)
    \/ \E w \in Workers, outcome \in SendOutcomes :
           process_pending_transactions_finish(w, outcome)
    \/ \E t \in TxIds, u \in UserIds : create_dispute(t, u, FALSE)
    \/ \E at \in TimePoints : Tick(at)

SweepSpec == SweepInit /\ [][SweepNext]_vars

\* ------------------------------------------ one sweep over several rows
\* A table of MaxBatch transactions at the hour BatchStart: those created at
\* hour 0, whose payment the sweep of hour 0 confirmed or did not find, and
\* those created in the last hour, still awaiting payment.
BatchIds == 1..MaxBatch
BatchStart == AUTO_RELEASE_DAYS * HOURS_PER_DAY + LOOKBACK_HOURS

BatchInit ==
    /\ \E created \in [BatchIds -> {[NewTransaction(SMALL_AMOUNT, PAYMENT_PENDING, b, addr)
                                       EXCEPT !.created_at = c] :
               b \in {Buyer, NULL}, addr \in {SELLER_ADDRESS, ""},
               c \in {0, BatchStart - 1}}],
          paid \in [BatchIds -> {"true", "false"}] :
           LET start == CheckAll([transactions |-> created,
                                  users |-> [u \in UserIds |-> NewUser],
                                  notifications |->
                                      [k \in UserIds \X BatchIds \X NotificationTypes |-> 0],
                                  sent |-> [t \in BatchIds |-> 0]],
                                 {t \in BatchIds : created[t].created_at = 0}, paid, 0)
           IN  /\ transactions = start.transactions
               /\ users = start.users
               /\ notifications = start.notifications
               /\ sent = start.sent
    /\ disputes = <<>>
    /\ now = BatchStart
    /\ pc = [w \in Workers |-> "idle"]
    /\ call = [w \in Workers |-> NoCall]
    /\ last = NoRet

BatchNext ==
    \E checked \in [BatchIds -> CheckOutcomes], outcomes \in [BatchIds -> SendOutcomes] :
        process_pending_transactions(checked, outcomes, FALSE)

BatchSpec == BatchInit /\ [][BatchNext]_vars

\* ------------------------------------------- the sweep as it is executed
\* Transactions awaiting payment, and transactions whose payment stands
\* confirmed since hour 0.
LiveInit ==
    /\ \E created \in [TxIds -> {NewTransaction(a, PAYMENT_PENDING, b, addr) :
               a \in Amounts, b \in {Buyer, NULL}, addr \in {SELLER_ADDRESS, ""}}],
          paid \in [TxIds -> {"true", "false"}] :
           LET start == CheckAll([transactions |-> created,
                                  users |-> [u \in UserIds |-> NewUser],
                                  notifications |-> [k \in NotifKeys |-> 0],
                                  sent |-> [t \in TxIds |-> 0]],
                                 TxIds, paid, 0)
           IN  /\ transactions = start.transactions
               /\ notifications = start.notifications
               /\ sent = start.sent
    /\ users \in {[u \in UserIds |-> IF u = Outsider THEN NewUser ELSE row] :
            row \in {NewUser, VeteranUser}}
    /\ disputes = <<>>
    /\ now = 0
    /\ pc = [w \in Workers |-> "idle"]
    /\ call = [w \in Workers |-> NoCall]
    /\ last = NoRet

\* _check_transaction_payment: amount * commission_rate raises TypeError
\* before check_payment is asked, whatever it would have answered.
ChecksRun(checked) == [t \in TxIds |-> "raise"]

\* release_escrow called from the sweep: its begin() raises before
\* send_payment is asked, whatever it would have answered.
ReleasesRun(outcomes) == [t \in TxIds |-> "raise"]

\* EscrowManager.process_pending_transactions as it is executed
process_pending_transactions_run(checked, outcomes) ==
    process_pending_transactions(ChecksRun(checked), ReleasesRun(outcomes), FALSE)

LiveNext ==
    \/ \E checked \in [TxIds -> CheckOutcomes], outcomes \in [TxIds -> SendOutcomes] :
           process_pending_transactions_run(checked, outcomes)
    \/ \E at \in TimePoints : Tick(at)

\* The scheduler keeps running the sweep, with a gateway that reports every
\* payment as received and answers every payout with a hash.
LiveSpec ==
    /\ LiveInit
    /\ [][LiveNext]_vars
    /\ WF_vars(process_pending_transactions_run([t \in TxIds |-> "true"],
                                                [t \in TxIds |-> "hash"]))


\* ================================================================= claims
\* The transition graph the specification prescribes for Transaction.status.
LegalEdges ==
    {<<CREATED, PAYMENT_PENDING>>,
     <<PAYMENT_PENDING, PAYMENT_RECEIVED>>, <<PAYMENT_PENDING, IN_ESCROW>>,
     <<CREATED, CANCELLED>>, <<PAYMENT_PENDING, CANCELLED>>}
    \cup ({PAYMENT_RECEIVED, IN_ESCROW} \X {COMPLETED, DISPUTED, REFUNDED})
    \cup ({DISPUTED} \X {COMPLETED, REFUNDED})

\* C1: every recorded change of a transaction's status is a legal edge of the
\* graph; a handler that would take another edge changes nothing.
C1_OnlyLegalEdges ==
    [][\A t \in TxIds :
          transactions'[t].status # transactions[t].status
          => <<transactions[t].status, transactions'[t].status>> \in LegalEdges]_vars

\* C2: of two release_escrow calls in flight on the same transaction with a
\* gateway that returns a hash, the one that finishes after the transaction
\* was completed returns failure, reporting that it is not in escrow status.
C2_SecondReleaseFails ==
    [][\A w \in Workers :
          (/\ release_escrow_finish(w, "hash")
           /\ transactions[call[w].tx].status = COMPLETED
           /\ sent[call[w].tx] = 1)
          => (/\ ~last'.ok
              /\ last'.msg = "not in escrow status"
              /\ sent' = sent)]_vars

\* C3: a release of a transaction whose status is not IN_ESCROW returns
\* failure, sends no payment and changes no transaction, user, dispute or
\* notification.
C3_ReleaseRejectedOutsideEscrow ==
    [][\A t \in TxIds, outcome \in SendOutcomes :
          (/\ transactions[t].status # IN_ESCROW
           /\ release_escrow(t, outcome, FALSE) \/ release_transaction(t, FALSE))
          => (/\ ~last'.ok
              /\ UNCHANGED <<tables, disputes>>)]_vars

\* C3 witness: a release was just refused on a disputed transaction.
C3_Witness ==
    \E t \in TxIds :
        /\ last = Result("release_escrow", t, FALSE, "not in escrow status")
        /\ transactions[t].status = DISPUTED
        /\ sent[t] = 0

DisputesOf(t) == {d \in DisputeIds : disputes[d].transaction_id = t}

\* C4: no transaction ever has more than one dispute, also when the seller and
\* the buyer call create_dispute at the same time.
C4_AtMostOneDispute ==
    \A t \in TxIds : Cardinality(DisputesOf(t)) <= 1


Paid(tx) == tx.status \notin {CREATED, PAYMENT_PENDING}

\* C5: commission_amount is written only by the payment sweep, in the step
\* that confirms the payment (PAYMENT_PENDING to IN_ESCROW), with the value
\* amount * commission_rate; from then on it keeps that value.
C5_CommissionSetOnceAtConfirmation ==
    /\ [](\A t \in TxIds :
            transactions[t].commission_amount =
                IF Paid(transactions[t])
                THEN transactions[t].amount * COMMISSION_RATE_PCT ELSE 0)
    /\ [][\A t \in TxIds :
            transactions'[t].commission_amount # transactions[t].commission_amount
            => (/\ transactions[t].status = PAYMENT_PENDING
                /\ transactions'[t].status = IN_ESCROW
                /\ last'.op = "process_pending_transactions")]_vars

\* C5 witness: a transaction confirmed by the sweep and later refunded after a
\* dispute still carries the commission of its confirmation.
C5_Witness ==
    \E t \in TxIds :
        /\ transactions[t].status = REFUNDED
        /\ DisputesOf(t) # {}
        /\ transactions[t].amount = 200
        /\ transactions[t].commission_amount = 400

AmountOf(d) == transactions[disputes[d].transaction_id].amount

\* C6: a sweep of auto_resolve_disputes changes neither a dispute whose
\* transaction amount is 200 or more, nor that transaction.
C6_LargeDisputesLeftToManualReview ==
    [][(\E failing \in SUBSET DisputeIds : auto_resolve_disputes(failing))
       => \A d \in DisputeIds :
            AmountOf(d) >= 200
            => (/\ disputes'[d] = disputes[d]
                /\ transactions'[disputes[d].transaction_id] =
                       transactions[disputes[d].transaction_id])]_vars

\* C6 witness: the sweep has just examined an old dispute of amount exactly
\* 200, which is still OPEN on a DISPUTED transaction.
C6_Witness ==
    /\ last.op = "auto_resolve_disputes"
    /\ \E d \in last.ids :
          /\ AmountOf(d) = 200
          /\ disputes[d].status = OPEN
          /\ transactions[disputes[d].transaction_id].status = DISPUTED

\* C7: a sweep of auto_resolve_disputes resolves every old OPEN dispute of
\* amount below 200 that it handles without a fault: release below 50, split
\* from 50 on; the dispute becomes RESOLVED by admin at the time of the sweep
\* with the notes of its tier, and the transaction COMPLETED at that time.
C7_TieredAutoResolution ==
    [][\A failing \in SUBSET DisputeIds :
          auto_resolve_disputes(failing)
          => \A d \in OldDisputes(disputes, now) \ failing :
                AmountOf(d) < 200
                => (/\ disputes'[d].status = RESOLVED
                    /\ disputes'[d].resolved_by_admin
                    /\ disputes'[d].resolved_at = now
                    /\ disputes'[d].resolution_notes =
                          (IF AmountOf(d) < 50
                           THEN "Auto-resolved: Small amount dispute - funds released to seller"
                           ELSE "Auto-resolved: Medium amount dispute - funds split between parties (50/50 split - contact admin for details)")
                    /\ transactions'[disputes[d].transaction_id].status = COMPLETED
                    /\ transactions'[disputes[d].transaction_id].completed_at = now)]_vars

\* C7 witness: the sweep has just resolved a dispute of amount exactly 50 as a split.
C7_Witness ==
    /\ last.op = "auto_resolve_disputes"
    /\ \E d \in last.ids :
          /\ AmountOf(d) = 50
          /\ disputes[d].status = RESOLVED
          /\ disputes[d].resolved_at = now
          /\ disputes[d].resolution_notes = NOTE_MEDIUM \o NOTE_SPLIT_SUFFIX
          /\ transactions[disputes[d].transaction_id].status = COMPLETED


Reputation(us, u) == us[u].reputation_score

C9_LateAdminResolutionChangesNothing ==
    [][\A d \in DisputeIds, action \in {"release", "refund"} :
          (/\ resolve_dispute(d, action, FALSE)
           /\ disputes[d].status = RESOLVED
           /\ disputes[d].resolution_notes # ADMIN_NOTES)
          => (/\ ~last'.ok
              /\ disputes' = disputes
              /\ transactions' = transactions)]_vars

\* C10: a release_escrow in flight on a transaction that a refund has meanwhile
\* refunded fails and sends nothing, and no transaction is REFUNDED after its
\* funds were sent to the seller.
C10_ReleaseAndRefundExclude ==
    /\ [][\A w \in Workers, outcome \in SendOutcomes :
            (/\ release_escrow_finish(w, outcome)
             /\ transactions[call[w].tx].status = REFUNDED)
            => (/\ ~last'.ok
                /\ UNCHANGED tables)]_vars
    /\ [](\A t \in TxIds : transactions[t].status = REFUNDED => sent[t] = 0)

\* C11: when check_payment raises for a transaction the payment sweep selected,
\* the sweep leaves that transaction's row as it was (still PAYMENT_PENDING, no
\* payment_received_at, no commission_amount), adds no notification about it,
\* and the row still matches the sweep's query.
C11_FailedCheckLeavesTransactionPending ==
    [][last'.op = "process_pending_transactions"
       => \A checked \in [TxIds -> CheckOutcomes], outcomes \in [TxIds -> SendOutcomes] :
            process_pending_transactions(checked, outcomes, FALSE)
            => \A t \in PendingIds(transactions, now) :
                  checked[t] = "raise"
                  => (/\ transactions'[t] = transactions[t]
                      /\ transactions'[t].status = PAYMENT_PENDING
                      /\ transactions'[t].payment_received_at = NULL
                      /\ transactions'[t].commission_amount = 0
                      /\ \A u \in UserIds, type \in NotificationTypes :
                            notifications'[<<u, t, type>>] = notifications[<<u, t, type>>]
                      /\ t \in PendingIds(transactions', now'))]_vars

\* C11 witness: a sweep has just logged a failed check for a transaction, which
\* is still PAYMENT_PENDING.
C11_Witness ==
    /\ last.op = "process_pending_transactions"
    /\ \E t \in last.failed :
          /\ transactions[t].status = PAYMENT_PENDING
          /\ transactions[t].payment_received_at = NULL

\* C12: release_escrow on an IN_ESCROW transaction that has no seller payout
\* address, or for which send_payment returns no hash or raises, returns failure
\* and changes no table; without an address it fails the same way whatever the
\* gateway would answer; after a failed send the transaction still passes the
\* checks of release_escrow.
C12_FailedReleaseChangesNothing ==
    [][last'.op = "release_escrow"
       => \A t \in TxIds, outcome \in SendOutcomes :
            (/\ release_escrow(t, outcome, FALSE)
             /\ transactions[t].status = IN_ESCROW
             /\ (transactions[t].seller_wallet_address = "" \/ outcome # "hash"))
            => (/\ ~last'.ok
                /\ UNCHANGED tables
                /\ transactions'[t].status = IN_ESCROW
                /\ transactions'[t].completed_at = NULL
                /\ transactions'[t].blockchain_tx_hash = ""
                /\ transactions[t].seller_wallet_address = ""
                   => last'.msg = "no seller wallet address"
                /\ transactions[t].seller_wallet_address # ""
                   => ReleaseCheck(transactions'[t]) = "ok")]_vars

\* C12 witness: a release has just failed at the gateway, and the transaction
\* is IN_ESCROW with its payout address and nothing sent.
C12_Witness ==
    /\ last.op = "release_escrow"
    /\ ~last.ok
    /\ last.msg \in {"send failed", "error"}
    /\ transactions[last.tx].status = IN_ESCROW
    /\ transactions[last.tx].seller_wallet_address # ""
    /\ sent[last.tx] = 0

Trades(us, u) == <<us[u].total_trades, us[u].successful_trades>>

\* C13: a release that obtains a hash sets the transaction COMPLETED with
\* completed_at and blockchain_tx_hash, and adds exactly 1 to total_trades and
\* successful_trades of the seller and of the buyer if there is one; no other
\* step changes a trade counter.
C13_ReleaseCountsOneTradePerParty ==
    /\ [][\A t \in TxIds :
            (/\ sent'[t] = sent[t] + 1
             /\ \A other \in TxIds \ {t} : sent'[other] = sent[other])
            => (/\ transactions'[t].status = COMPLETED
                /\ transactions'[t].completed_at = now
                /\ transactions'[t].blockchain_tx_hash = TX_HASH
                /\ Trades(users', Seller) =
                      <<users[Seller].total_trades + 1, users[Seller].successful_trades + 1>>
                /\ Trades(users', Buyer) =
                      IF transactions[t].buyer_id = Buyer
                      THEN <<users[Buyer].total_trades + 1, users[Buyer].successful_trades + 1>>
                      ELSE Trades(users, Buyer)
                /\ Trades(users', Outsider) = Trades(users, Outsider))]_vars
    /\ [][sent' = sent => \A u \in UserIds : Trades(users', u) = Trades(users, u)]_vars

\* C13 witness: a transaction with a buyer was released with a hash, and both
\* parties' counters stand one above where they started.
C13_Witness ==
    \E t \in TxIds :
        /\ transactions[t].status = COMPLETED
        /\ transactions[t].blockchain_tx_hash = TX_HASH
        /\ transactions[t].completed_at # NULL
        /\ transactions[t].buyer_id = Buyer
        /\ sent[t] = 1
        /\ Trades(users, Seller) \in {<<1, 1>>, <<51, 51>>}
        /\ Trades(users, Buyer) \in {<<1, 1>>, <<51, 51>>}

\* C14: no transaction without a buyer is ever REFUNDED, whether by
\* refund_escrow or by the admin refund route.
C14_NoRefundWithoutBuyer ==
    \A t \in TxIds : transactions[t].status = REFUNDED => transactions[t].buyer_id # NULL

\* C15: a dispute is inserted only for a transaction that is IN_ESCROW or
\* PAYMENT_RECEIVED, it is inserted OPEN, and the insert and the move of the
\* transaction to DISPUTED are one step: neither happens without the other, and
\* every DISPUTED transaction has a dispute.
C15_DisputeInsertedWithStatusChange ==
    /\ [][Len(disputes') # Len(disputes)
          => (/\ Len(disputes') = Len(disputes) + 1
              /\ SubSeq(disputes', 1, Len(disputes)) = disputes
              /\ LET new == disputes'[Len(disputes')]
                 IN  /\ new.status = OPEN
                     /\ transactions[new.transaction_id].status
                            \in {IN_ESCROW, PAYMENT_RECEIVED}
                     /\ transactions'[new.transaction_id].status = DISPUTED)]_vars
    /\ [][\A t \in TxIds :
            (transactions'[t].status = DISPUTED /\ transactions[t].status # DISPUTED)
            => (/\ Len(disputes') = Len(disputes) + 1
                /\ disputes'[Len(disputes')].transaction_id = t)]_vars
    /\ [](\A t \in TxIds : transactions[t].status = DISPUTED => DisputesOf(t) # {})

\* C15 witness: create_dispute has just succeeded; its dispute is OPEN and its
\* transaction DISPUTED.
C15_Witness ==
    /\ last.op = "create_dispute"
    /\ last.ok
    /\ transactions[last.tx].status = DISPUTED
    /\ \E d \in DisputesOf(last.tx) : disputes[d].status = OPEN

Parties(t) == {transactions[t].seller_id, transactions[t].buyer_id} \ {NULL}

\* C16: the initiator of every dispute is the seller or the buyer of its
\* transaction, and create_dispute called by anyone else, or by a user that
\* does not exist, fails and inserts nothing.
C16_InitiatorIsParty ==
    /\ [](\A d \in DisputeIds :
             disputes[d].initiated_by \in Parties(disputes[d].transaction_id))
    /\ [][last'.op = "create_dispute"
          => \A t \in TxIds, u \in UserIds \cup {NoSuchUser} :
               (create_dispute(t, u, FALSE) /\ u \notin Parties(t))
               => (/\ ~last'.ok
                   /\ last'.msg # ""
                   /\ disputes' = disputes
                   /\ transactions' = transactions)]_vars

\* C16 witness: create_dispute on a disputable transaction has just been turned
\* away because the caller is no party to it.
C16_Witness ==
    /\ last.op = "create_dispute"
    /\ ~last.ok
    /\ last.msg = "You are not authorized to dispute this transaction"
    /\ transactions[last.tx].status = IN_ESCROW
    /\ disputes = <<>>

\* The conditions under which the specification has createDispute fail.
MustFailDispute(t, u, fault) ==
    \/ fault
    \/ t \notin TxIds
    \/ /\ t \in TxIds
       /\ \/ transactions[t].status \notin {IN_ESCROW, PAYMENT_RECEIVED}
          \/ u \notin Parties(t)
          \/ DisputesOf(t) # {}
          \/ transactions[t].amount > MAX_DISPUTE_AMOUNT

\* C17: every create_dispute that must fail (transaction not found, status not
\* disputable, caller no party, dispute exists, amount above MAX_DISPUTE_AMOUNT,
\* internal fault) returns failure with a reason, adds no dispute and leaves
\* the transactions alone; every other call succeeds, in particular one for an
\* amount equal to MAX_DISPUTE_AMOUNT.
C17_FailedDisputeChangesNothing ==
    [][last'.op = "create_dispute"
       => \A t \in TxIds \cup {NoSuchTx}, u \in UserIds \cup {NoSuchUser}, fault \in BOOLEAN :
            create_dispute(t, u, fault)
            => IF MustFailDispute(t, u, fault)
               THEN /\ ~last'.ok
                    /\ last'.msg # ""
                    /\ disputes' = disputes
                    /\ transactions' = transactions
               ELSE /\ last'.ok
                    /\ Len(disputes') = Len(disputes) + 1]_vars

\* C17 witness: create_dispute by the seller has just been turned away for an
\* amount above the limit, with no dispute inserted and the status unchanged.
C17_Witness ==
    /\ last.op = "create_dispute"
    /\ ~last.ok
    /\ last.msg = "Transaction amount exceeds dispute limit"
    /\ transactions[last.tx].amount = MAX_DISPUTE_AMOUNT + 1
    /\ transactions[last.tx].status = IN_ESCROW
    /\ disputes = <<>>

\* C18: a transaction with no buyer is CREATED or PAYMENT_PENDING; the payment
\* sweep never moves a buyer-less transaction to IN_ESCROW.
C18_NoBuyerOnlyBeforePayment ==
    \A t \in TxIds :
        transactions[t].buyer_id = NULL
        => transactions[t].status \in {CREATED, PAYMENT_PENDING}

\* C19: a successful admin resolve_dispute leaves the dispute RESOLVED with
\* resolved_by_admin, the notes supplied and resolved_at, and leaves the
\* transaction COMPLETED for action release, REFUNDED for action refund, with
\* completed_at set.
C19_AdminResolveEffects ==
    [][last'.op = "resolve_dispute"
       => \A d \in DisputeIds, action \in ResolveActions :
            (resolve_dispute(d, action, FALSE) /\ last'.ok)
            => LET t == disputes[d].transaction_id
               IN  /\ action \in {"release", "refund"}
                   /\ disputes'[d].status = RESOLVED
                   /\ disputes'[d].resolved_by_admin = TRUE
                   /\ disputes'[d].resolution_notes = ADMIN_NOTES
                   /\ disputes'[d].resolved_at = now
                   /\ transactions'[t].status =
                          (IF action = "release" THEN COMPLETED ELSE REFUNDED)
                   /\ transactions'[t].completed_at = now]_vars

\* C19 witness: an admin resolution with action refund has just succeeded on a
\* disputed transaction.
C19_Witness ==
    /\ last.op = "resolve_dispute"
    /\ last.ok
    /\ last.msg = "refund"
    /\ transactions[last.tx].status = REFUNDED
    /\ \E d \in DisputesOf(last.tx) :
          /\ disputes[d].status = RESOLVED
          /\ disputes[d].resolution_notes = ADMIN_NOTES
          /\ disputes[d].resolved_by_admin

\* C20: an admin resolve_dispute with an action other than release or refund,
\* or with the id of no dispute, returns failure and leaves every dispute and
\* every transaction as it was.
C20_InvalidAdminResolveChangesNothing ==
    [][last'.op = "resolve_dispute"
       => \A d \in DisputeIds \cup {NoSuchDispute}, action \in ResolveActions :
            (/\ resolve_dispute(d, action, FALSE)
             /\ (d = NoSuchDispute \/ action \notin {"release", "refund"}))
            => (/\ ~last'.ok
                /\ disputes' = disputes
                /\ transactions' = transactions)]_vars

\* C21: a user's reputation_score, total_trades and successful_trades change
\* only in a step in which a release pays out and leaves its transaction
\* COMPLETED; the sweep's confirmation, refunds, create_dispute, both kinds of
\* dispute resolution and every failed call leave every user row as it was.
C21_UserStatsChangeOnlyOnRelease ==
    [][users' # users
       => \E t \in TxIds :
             /\ sent'[t] = sent[t] + 1
             /\ transactions[t].status = IN_ESCROW
             /\ transactions'[t].status = COMPLETED]_vars

\* C21 witness: a refund has just succeeded and no user row has moved from
\* where it started.
C21_Witness ==
    /\ last.op = "refund_escrow"
    /\ last.ok
    /\ transactions[last.tx].status = REFUNDED
    /\ \A u \in UserIds : users[u] \in {NewUser, VeteranUser}

\* C22: a release whose key cannot be decrypted fails, changes no table, and
\* does not reach send_payment; no release ever hands send_payment an empty key.
C22_UndecryptableKeyStopsRelease ==
    /\ [][last'.op = "release_escrow"
          => \A t \in TxIds, outcome \in SendOutcomes :
               release_escrow_undecryptable(t, outcome)
               => (/\ ~last'.ok
                   /\ last'.key = NO_KEY
                   /\ UNCHANGED tables)]_vars
    /\ [](last.key # EMPTY_KEY)

\* A failure result of entry point op, with the store left as it was.
FailureOf(op) ==
    /\ last'.op = op
    /\ ~last'.ok
    /\ UNCHANGED <<tables, disputes>>

StoredWith(status) == {d \in 1..Len(disputes) : disputes[d].status = status}
Timed == {d \in 1..Len(disputes) : disputes[d].resolved_at # NULL}
ReturnedStatistics == last.op = "get_dispute_statistics" /\ last.ok
C24_StatisticsMatchStoredDisputes ==
    ReturnedStatistics =>
        LET st == last.stats
            total == Len(disputes)
            hours == SumHours(disputes, Timed)
            off == 10 * hours - st.avg_resolution_hours * Cardinality(Timed)
        IN  /\ st.total_disputes = total
            /\ st.open_disputes = Cardinality(StoredWith(OPEN))
            /\ st.resolved_disputes = Cardinality(StoredWith(RESOLVED))
            /\ st.resolution_rate[1] * (IF total > 1 THEN total ELSE 1)
                   = Cardinality(StoredWith(RESOLVED)) * 100 * st.resolution_rate[2]
            /\ total = 0 => st.resolution_rate[1] = 0
            /\ Timed = {} => st.avg_resolution_hours = 0
            /\ 2 * off <= Cardinality(Timed)
            /\ 2 * off >= 0 - Cardinality(Timed)

\* An OPEN dispute and two resolved after 1 and 2 hours: 1.5 hours on average.
C24_Witness ==
    /\ ReturnedStatistics
    /\ Cardinality(StoredWith(OPEN)) = 1
    /\ Cardinality(Timed) = 2
    /\ last.stats.avg_resolution_hours = 15

\* C24 as stated: the returned avg_resolution_hours is the average itself.
C24_AverageIsExact ==
    ReturnedStatistics =>
        last.stats.avg_resolution_hours * Cardinality(Timed)
            = 10 * SumHours(disputes, Timed)

\* C25: a transaction that has an OPEN dispute is not COMPLETED and no payout
\* was sent for it, whatever createDispute calls a running sweep is
\* interleaved with.
C25_AutoReleaseSparesDisputed ==
    \A t \in TxIds :
        (\E d \in DisputeIds : /\ disputes[d].transaction_id = t
                               /\ disputes[d].status = OPEN)
            => /\ transactions[t].status # COMPLETED
               /\ sent[t] = 0

\* C26: a sweep of auto_resolve_disputes leaves unchanged every dispute that
\* is not OPEN, or whose created_at is not more than AUTO_RESOLVE_DAYS before
\* the sweep, and the transaction of that dispute.
Age(d) == now - disputes[d].created_at
C26_AutoResolveOnlyOldOpenDisputes ==
    [][(/\ last'.op = "auto_resolve_disputes"
        /\ \E failing \in SUBSET DisputeIds : auto_resolve_disputes(failing))
       => \A d \in DisputeIds :
            (\/ disputes[d].status # OPEN
             \/ Age(d) <= AUTO_RESOLVE_DAYS * HOURS_PER_DAY)
            => (/\ disputes'[d] = disputes[d]
                /\ transactions'[disputes[d].transaction_id] =
                       transactions[disputes[d].transaction_id])]_vars

\* C26 witness: a sweep has run past the window of the transaction's
\* payment, over an OPEN dispute of a small amount opened within the window:
\* the dispute is still OPEN and its transaction DISPUTED.
C26_Witness ==
    /\ last.op = "auto_resolve_disputes"
    /\ last.ids = {}
    /\ now > AUTO_RESOLVE_DAYS * HOURS_PER_DAY
    /\ \E d \in DisputeIds :
          /\ disputes[d].status = OPEN
          /\ Age(d) <= AUTO_RESOLVE_DAYS * HOURS_PER_DAY
          /\ AmountOf(d) < MEDIUM_AMOUNT
          /\ transactions[disputes[d].transaction_id].status = DISPUTED

\* C27: a sweep of process_pending_transactions confirms no transaction that
\* is not PAYMENT_PENDING or that was created 2 hours or more before the
\* sweep, whatever check_payment would answer for it: such a transaction is
\* not moved to IN_ESCROW, its payment_received_at and commission_amount stay
\* as they were and no payment_confirmed notification is written for it.
C27_SweepConfirmsOnlyRecentPending ==
    [][last'.op = "process_pending_transactions"
       => \A checked \in [TxIds -> CheckOutcomes], outcomes \in [TxIds -> SendOutcomes] :
            process_pending_transactions(checked, outcomes, FALSE)
            => \A t \in TxIds :
                  (\/ transactions[t].status # PAYMENT_PENDING
                   \/ now - transactions[t].created_at >= LOOKBACK_HOURS)
                  => (/\ transactions'[t].status = IN_ESCROW
                            => transactions[t].status = IN_ESCROW
                      /\ transactions'[t].payment_received_at =
                             transactions[t].payment_received_at
                      /\ transactions'[t].commission_amount =
                             transactions[t].commission_amount
                      /\ \A u \in UserIds :
                            notifications'[<<u, t, "payment_confirmed">>] =
                                notifications[<<u, t, "payment_confirmed">>])]_vars

\* C27 witness: a sweep has run exactly 2 hours after a transaction was
\* created, selected nothing, and the transaction is still PAYMENT_PENDING.
C27_Witness ==
    /\ last.op = "process_pending_transactions"
    /\ last.ok
    /\ last.ids = {}
    /\ \E t \in TxIds :
          /\ transactions[t].status = PAYMENT_PENDING
          /\ now - transactions[t].created_at = LOOKBACK_HOURS

\* C28: a sweep of process_pending_transactions completes a transaction, or
\* sends a payout for it, only if before the sweep it was IN_ESCROW with
\* payment_received_at more than AUTO_RELEASE_DAYS before the sweep.
C28_AutoReleaseOnlyAfterWindow ==
    [][last'.op = "process_pending_transactions"
       => \A checked \in [TxIds -> CheckOutcomes], outcomes \in [TxIds -> SendOutcomes] :
            process_pending_transactions(checked, outcomes, FALSE)
            => \A t \in TxIds :
                  (\/ transactions'[t].status = COMPLETED /\ transactions[t].status # COMPLETED
                   \/ sent'[t] # sent[t])
                  => (/\ transactions[t].status = IN_ESCROW
                      /\ transactions[t].payment_received_at # NULL
                      /\ now - transactions[t].payment_received_at
                             > AUTO_RELEASE_DAYS * HOURS_PER_DAY)]_vars

\* C28 witness: a sweep has just completed a transaction, more than 7 days
\* after its payment was confirmed.
C28_Witness ==
    /\ last.op = "process_pending_transactions"
    /\ \E t \in last.ids :
          /\ transactions[t].status = COMPLETED
          /\ transactions[t].completed_at = now
          /\ transactions[t].completed_at - transactions[t].payment_received_at
                 > AUTO_RELEASE_DAYS * HOURS_PER_DAY
          /\ sent[t] = 1

\* C29: while sweeps keep running and send_payment answers with a hash, a
\* transaction that is IN_ESCROW with payment_received_at more than 7 days
\* back and a seller payout address is eventually COMPLETED.
DueForRelease(t) ==
    /\ transactions[t].status = IN_ESCROW
    /\ AutoReleaseReady(transactions[t], now)
AwaitingPayment(t) == t \in PendingIds(transactions, now)
C31_PayoutPlusCommissionIsExpected ==
    /\ last.op = "process_pending_transactions"
          => \A t \in DOMAIN last.asked :
                last.asked[t] = 100 * transactions[t].amount
                                  + transactions[t].amount * COMMISSION_RATE_PCT
    /\ (last.op = "release_escrow" /\ last.key # NO_KEY)
          => last.amount = 100 * transactions[last.tx].amount
    /\ \A t \in TxIds :
          sent[t] > 0
          => 100 * transactions[t].amount + transactions[t].commission_amount
                = 100 * transactions[t].amount
                    + transactions[t].amount * COMMISSION_RATE_PCT

\* C31 witness: a release has just paid out 200 to the seller of a
\* transaction whose commission of 4 stays with the platform.
C31_Witness ==
    /\ last.op = "release_escrow"
    /\ last.ok
    /\ last.amount = 20000
    /\ sent[last.tx] = 1
    /\ transactions[last.tx].commission_amount = 400

\* C32: once a transaction is COMPLETED or REFUNDED, no step changes its
\* status or its completed_at.
C32_FinalStatusesAbsorbing ==
    [][\A t \in TxIds :
          transactions[t].status \in {COMPLETED, REFUNDED}
          => (/\ transactions'[t].status = transactions[t].status
              /\ transactions'[t].completed_at = transactions[t].completed_at)]_vars

\* C33: send_payment succeeds at most once for a transaction, and each party's
\* total_trades and successful_trades grow by at most one per transaction.
C33_AtMostOnePayout ==
    /\ \A t \in TxIds : sent[t] <= 1
    /\ \A u \in {Seller, Buyer} :
          \E before \in {NewUser.total_trades, VeteranUser.total_trades} :
              /\ users[u].total_trades \in before .. before + MaxTx
              /\ users[u].successful_trades \in before .. before + MaxTx

\* C34: a COMPLETED transaction has a blockchain_tx_hash, that is, a payout
\* was sent to its seller.
C34_CompletedHasPayoutHash ==
    \A t \in TxIds :
        transactions[t].status = COMPLETED
        => (/\ transactions[t].blockchain_tx_hash # ""
            /\ sent[t] > 0)

\* C35: a dispute is OPEN only while its transaction is DISPUTED; an
\* operation that takes a disputed transaction to COMPLETED or REFUNDED
\* leaves no OPEN dispute on it.
C35_OpenDisputeOnlyWhileDisputed ==
    \A d \in DisputeIds :
        disputes[d].status = OPEN
        => transactions[disputes[d].transaction_id].status = DISPUTED

\* C36: a RESOLVED dispute has resolved_at set, resolved_by_admin true and a
\* transaction that is COMPLETED or REFUNDED; and once a dispute is RESOLVED
\* no later step changes its status, resolution_notes or resolved_at.
C36_ResolvedDisputeIsFinal ==
    /\ [](\A d \in DisputeIds :
            disputes[d].status = RESOLVED
            => (/\ disputes[d].resolved_at # NULL
                /\ disputes[d].resolved_by_admin
                /\ transactions[disputes[d].transaction_id].status
                       \in {COMPLETED, REFUNDED}))
    /\ [][\A d \in DisputeIds :
            disputes[d].status = RESOLVED
            => (/\ disputes'[d].status = RESOLVED
                /\ disputes'[d].resolution_notes = disputes[d].resolution_notes
                /\ disputes'[d].resolved_at = disputes[d].resolved_at)]_vars

\* C37: a DISPUTED transaction has exactly one dispute, and a transaction
\* that has a dispute is DISPUTED, COMPLETED or REFUNDED.
C37_DisputedHasExactlyOneDispute ==
    \A t \in TxIds :
        /\ transactions[t].status = DISPUTED => Cardinality(DisputesOf(t)) = 1
        /\ DisputesOf(t) # {}
              => transactions[t].status \in {DISPUTED, COMPLETED, REFUNDED}

\* C38: of a create_dispute and a release (release_escrow or the admin release
\* route) racing on one IN_ESCROW transaction at most one takes effect: no
\* transaction is COMPLETED while a dispute on it is OPEN, and no transaction
\* is DISPUTED after a payout for it was sent to the seller.
C38_DisputeAndReleaseExclude ==
    \A t \in TxIds :
        /\ ~(/\ transactions[t].status = COMPLETED
              /\ \E d \in DisputesOf(t) : disputes[d].status = OPEN)
        /\ ~(/\ transactions[t].status = DISPUTED
              /\ sent[t] > 0)

\* C39: completed_at is set exactly when the status is COMPLETED or REFUNDED,
\* and payment_received_at is set whenever the status is IN_ESCROW, DISPUTED,
\* COMPLETED or REFUNDED.
C39_TimestampsAgreeWithStatus ==
    \A t \in TxIds :
        /\ transactions[t].completed_at # NULL
              <=> transactions[t].status \in {COMPLETED, REFUNDED}
        /\ transactions[t].status \in {IN_ESCROW, DISPUTED, COMPLETED, REFUNDED}
              => transactions[t].payment_received_at # NULL

\* C40: within one sweep every selected transaction is handled as if it were
\* the only one, whatever check_payment or send_payment answered for the
\* others (a raise included): the sweep reports every selected row as
\* examined, a row whose payment was found is confirmed and stays confirmed,
\* and a row due for auto-release whose payout returned a hash is completed.
C40_SweepFailuresAreIsolated ==
    [][last'.op = "process_pending_transactions"
       => \A checked \in [BatchIds -> CheckOutcomes],
             outcomes \in [BatchIds -> SendOutcomes] :
            process_pending_transactions(checked, outcomes, FALSE)
            => /\ last'.ids = PendingIds(transactions, now) \cup EscrowIds(transactions, now)
               /\ \A t \in PendingIds(transactions, now) :
                     checked[t] = "true"
                     => transactions'[t] =
                            ConfirmPayment(Db, t, now).transactions[t]
               /\ \A t \in EscrowIds(transactions, now) :
                     (ReleaseCheck(transactions[t]) = "ok" /\ outcomes[t] = "hash")
                     => transactions'[t] =
                            ReleaseCommit(Db, t, now).transactions[t]]_vars

\* A sweep in which the check of one transaction raised and the payment of
\* another was confirmed.
C40_Witness ==
    /\ last.op = "process_pending_transactions"
    /\ \E a \in last.failed, b \in last.ids \ last.failed :
          /\ a < b
          /\ transactions[a].status = PAYMENT_PENDING
          /\ transactions[b].status = IN_ESCROW
          /\ transactions[b].payment_received_at = now
====
